---- MODULE Spec2Model ----
(***************************************************************************)
(* Model of script/cluster_folger.py: the line normalizer, the pairwise    *)
(* similarity, the cached distance matrix and the two clustering runs.     *)
(* A string is a sequence of one-character strings; a record is the tuple  *)
(* <<id, text>> (Python's t[0], t[1] are t[1], t[2] here).                 *)
(***************************************************************************)
EXTENDS Integers, Sequences, FiniteSets, TLC

VARIABLES
    t1, t2, ret,                      \* line_similarity: its arguments and <<its value>>
    files,                            \* the .npy files on disk, by path
    first_lines, matrix_path,         \* get_or_create_distance_matrix: its arguments
    outcome, dist_matrix, calls,      \* ... how it ended, what it returned, the pairs it evaluated
    ncalls,                           \* ... how many calls were made
    details, clusters,                \* folger_results.db: the two tables
    fn, pc, conn, err,                \* a run: the function, where it is, its connection, its exception
    labels, grouped, todo, csv,       \* ... its label vector, its groups, the next group, the rows it wrote
    max_retries, base_delay,          \* fetch_with_retries: its arguments
    attempt, fpc, response,           \* ... its loop variable, where it is, what it returned
    requests, slept, warnings         \* ... the requests it issued, its sleeps, its warnings

lineVars == <<t1, t2, ret>>
cacheVars == <<first_lines, matrix_path, outcome, dist_matrix, calls, ncalls>>
runVars == <<details, clusters, fn, pc, conn, err, labels, grouped, todo, csv>>
fetchVars == <<max_retries, base_delay, attempt, fpc, response, requests,
               slept, warnings>>
vars == <<t1, t2, ret, files, first_lines, matrix_path, outcome, dist_matrix,
          calls, ncalls, details, clusters, fn, pc, conn, err, labels, grouped,
          todo, csv, max_retries, base_delay, attempt, fpc, response, requests,
          slept, warnings>>

----------------------------------------------------------------------------
(* Bounds *)

MaxPieces == 3

MaxRecords == 2

MaxDetails == 2

MaxCalls == 3

MaxLabel == 1

MaxRetries == 4

MaxBaseDelay == 2

----------------------------------------------------------------------------
(* Characters and strings *)

Max(a, b) == IF a >= b THEN a ELSE b

Min(a, b) == IF a <= b THEN a ELSE b

Range(s) == {s[k] : k \in DOMAIN s}

\* str.isspace for one character
isspace(ch) == ch = " "

\* str.isalnum for one character
isalnum(ch) == ch \in {"a", "b", "e", "f", "o", "s", "B", "O"}

\* str.lower for one character
LowerChar(ch) == CASE ch = "B" -> "b" [] ch = "O" -> "o" [] OTHER -> ch

lower(s) == [k \in DOMAIN s |-> LowerChar(s[k])]

RECURSIVE lstrip(_)
lstrip(s) == IF s # <<>> /\ isspace(Head(s)) THEN lstrip(Tail(s)) ELSE s

RECURSIVE rstrip(_)
rstrip(s) ==
    IF s # <<>> /\ isspace(s[Len(s)]) THEN rstrip(SubSeq(s, 1, Len(s) - 1)) ELSE s

\* str.strip()
strip(s) == rstrip(lstrip(s))

\* "".join(char for char in line if char.isalnum() or char.isspace())
KeepChar(ch) == isalnum(ch) \/ isspace(ch)

RemovePunctuation(s) == SelectSeq(s, KeepChar)

\* str.split(): the maximal runs of non-whitespace characters, in order
RECURSIVE SplitFrom(_, _, _)
SplitFrom(s, cur, acc) ==
    IF s = <<>> THEN (IF cur = <<>> THEN acc ELSE Append(acc, cur))
    ELSE IF isspace(Head(s))
         THEN SplitFrom(Tail(s), <<>>, IF cur = <<>> THEN acc ELSE Append(acc, cur))
         ELSE SplitFrom(Tail(s), Append(cur, Head(s)), acc)

split(s) == SplitFrom(s, <<>>, <<>>)

\* " ".join(words)
RECURSIVE join(_)
join(words) ==
    IF words = <<>> THEN <<>>
    ELSE IF Len(words) = 1 THEN words[1]
    ELSE words[1] \o <<" ">> \o join(Tail(words))

process_first_line(line) == split(RemovePunctuation(lower(strip(line))))

----------------------------------------------------------------------------
(* distance.levenshtein: the edit distance, row by row *)

Min3(a, b, c) == Min(a, Min(b, c))

\* prevRow[k] and acc[k] hold column k-1 of the previous and of the current
\* row; the current row is the one numbered acc[1], the next column Len(acc)
RECURSIVE LevRow(_, _, _, _)
LevRow(prevRow, ch, b, acc) ==
    LET j == Len(acc)
    IN  IF j > Len(b) THEN acc
        ELSE LevRow(prevRow, ch, b,
                    Append(acc, Min3(prevRow[j + 1] + 1,
                                     acc[j] + 1,
                                     prevRow[j] + (IF ch = b[j] THEN 0 ELSE 1))))

RECURSIVE LevRows(_, _, _)
LevRows(a, b, prevRow) ==
    LET i == prevRow[1] + 1
    IN  IF i > Len(a) THEN prevRow[Len(b) + 1]
        ELSE LevRows(a, b, LevRow(prevRow, a[i], b, <<i>>))

levenshtein(a, b) == LevRows(a, b, [k \in 1..(Len(b) + 1) |-> k - 1])

----------------------------------------------------------------------------
(* line_similarity *)

\* the shortest word that counts as significant
MinWordLen == 4

SignificantWords(l) == {w \in Range(l) : Len(w) >= MinWordLen}

PairDistance_NoShortcut(l1, l2) == levenshtein(join(l1), join(l2))

PairDistance_FirstLength(l1, l2) ==
    IF {w \in Range(l1) : Len(w) >= 4} \cap {w \in Range(l2) : Len(w) >= 4} = {}
    THEN Len(join(l1))
    ELSE levenshtein(join(l1), join(l2))

\* the value of d: the length penalty when no significant word is shared,
\* the edit distance of the joined lines otherwise
PairDistance(l1, l2) ==
    IF SignificantWords(l1) \cap SignificantWords(l2) = {}
    THEN Max(Len(join(l1)), Len(join(l2)))
    ELSE levenshtein(join(l1), join(l2))

line_similarity(a, b) ==
    -PairDistance(process_first_line(a[2]), process_first_line(b[2]))

----------------------------------------------------------------------------
(* The matrix and its .npy file *)

\* np.zeros((n, n)): a matrix is the sequence of its rows
zeros(n) == [i \in 1..n |-> [j \in 1..n |-> 0]]

SetCell(m, i, j, v) == [m EXCEPT ![i] = [m[i] EXCEPT ![j] = v]]

Shape(m) == <<Len(m), IF m = <<>> THEN 0 ELSE Len(m[1])>>

RECURSIVE Flatten(_)
Flatten(m) == IF m = <<>> THEN <<>> ELSE Head(m) \o Flatten(Tail(m))

NoFile == [exists |-> FALSE, shape |-> <<0, 0>>, data |-> <<>>]

\* np.save: the header carries the shape, the payload the cells in row-major order
np_save(m) == [exists |-> TRUE, shape |-> <<Len(m), Len(m)>>, data |-> Flatten(m)]

\* np.load: the payload cut into rows of the header's shape
np_load(f) ==
    [i \in 1..f.shape[1] |->
        [j \in 1..f.shape[2] |-> f.data[(i - 1) * f.shape[2] + j]]]

\* os.path.exists(matrix_path)
exists(store, path) == store[path].exists

ShapeMatches_AtLeast(m, n) == Len(m) >= n

\* dist_matrix.shape != (n, n) is the negation of this
ShapeMatches(m, n) == Shape(m) = <<n, n>>

InnerStart_Diagonal(i) == i

\* for j in range(i + 1, n): the first j of row i
InnerStart(i) == i + 1

\* the body of the inner loop: one evaluation, mirrored below the diagonal
FillPair(fl, i, j, st) ==
    LET dist == line_similarity(fl[i], fl[j])
    IN  [m |-> SetCell(SetCell(st.m, i, j, dist), j, i, dist),
         calls |-> Append(st.calls, <<i, j>>)]

RECURSIVE InnerLoop(_, _, _, _)
InnerLoop(fl, i, j, st) ==
    IF j > Len(fl) THEN st ELSE InnerLoop(fl, i, j + 1, FillPair(fl, i, j, st))

RECURSIVE OuterLoop(_, _, _)
OuterLoop(fl, i, st) ==
    IF i > Len(fl) THEN st
    ELSE OuterLoop(fl, i + 1, InnerLoop(fl, i, InnerStart(i), st))

\* the computation of a fresh matrix, with the pairs it evaluated in order
BuildMatrix(fl) == OuterLoop(fl, 1, [m |-> zeros(Len(fl)), calls |-> <<>>])

get_or_create_NoReuse(store, fl, path) ==
    LET built == BuildMatrix(fl)
    IN  [outcome |-> "built", matrix |-> built.m, calls |-> built.calls,
         files |-> [store EXCEPT ![path] = np_save(built.m)]]

\* what a call does to the files and what it hands back
get_or_create_distance_matrix(store, fl, path) ==
    IF exists(store, path)
    THEN LET loaded == np_load(store[path])
         IN  IF ShapeMatches(loaded, Len(fl))
             THEN [outcome |-> "loaded", matrix |-> loaded, calls |-> <<>>,
                   files |-> store]
             ELSE [outcome |-> "ValueError", matrix |-> <<>>, calls |-> <<>>,
                   files |-> store]
    ELSE LET built == BuildMatrix(fl)
         IN  [outcome |-> "built", matrix |-> built.m, calls |-> built.calls,
              files |-> [store EXCEPT ![path] = np_save(built.m)]]

----------------------------------------------------------------------------
(* Inputs *)

Pieces == {<<"b", "e", "e", "s">>, <<"O", "f", ",">>, <<" ">>}

\* the texts made of at most k pieces
RECURSIVE Texts(_)
Texts(k) ==
    IF k = 0 THEN {<<>>}
    ELSE LET shorter == Texts(k - 1)
         IN  shorter \cup {t \o p : t \in shorter, p \in Pieces}

AllRecords ==
    << <<1, <<"b", "e", "e", "s">> >>,
       <<2, <<"O", "f", ",">> >>,
       <<3, <<"O", "f", ",", " ", "B", "e", "e", "s">> >> >>

\* the first k records
Pool(k) == {AllRecords[i] : i \in 1..Min(k, Len(AllRecords))}

\* the sequences of at most k distinct records of S
RECURSIVE RecordSeqs(_, _)
RecordSeqs(S, k) ==
    IF k = 0 THEN {<<>>}
    ELSE LET shorter == RecordSeqs(S, k - 1)
         IN  shorter \cup
             UNION {{Append(fl, r) : r \in S \ Range(fl)} : fl \in shorter}

GlobalPath == <<"dist_matrix", ".npy">>

ClusterPath(cluster_id) == <<"dist_matrix_", ToString(cluster_id), ".npy">>

Paths == {GlobalPath} \cup {ClusterPath(c) : c \in 0..MaxLabel}

----------------------------------------------------------------------------
(* The parts of the state a specification leaves alone *)

LineIdle == t1 = <<0, <<>> >> /\ t2 = <<0, <<>> >> /\ ret = <<>>

CacheIdle ==
    /\ first_lines = <<>>
    /\ matrix_path = GlobalPath
    /\ outcome = "none"
    /\ dist_matrix = <<>>
    /\ calls = <<>>
    /\ ncalls = 0

RunIdle ==
    /\ details = {}
    /\ clusters = {}
    /\ fn = "none"
    /\ pc = "idle"
    /\ conn = "none"
    /\ err = "none"
    /\ labels = <<>>
    /\ grouped = <<>>
    /\ todo = 0
    /\ csv = <<>>

FilesEmpty == files = [p \in Paths |-> NoFile]

FetchIdle ==
    /\ max_retries = 0
    /\ base_delay = 0
    /\ attempt = 0
    /\ fpc = "idle"
    /\ response = "none"
    /\ requests = 0
    /\ slept = <<>>
    /\ warnings = <<>>

----------------------------------------------------------------------------
(* SpecLine: line_similarity applied to two records *)

InitLine ==
    /\ t1 \in {1} \X Texts(MaxPieces)
    /\ t2 \in {1, 2} \X Texts(MaxPieces)
    /\ ret = <<>>
    /\ FilesEmpty /\ CacheIdle /\ RunIdle /\ FetchIdle

Similarity ==
    /\ ret = <<>>
    /\ ret' = <<line_similarity(t1, t2)>>
    /\ UNCHANGED <<t1, t2, files, cacheVars, runVars, fetchVars>>

NextLine == Similarity

SpecLine == InitLine /\ [][NextLine]_vars

----------------------------------------------------------------------------
(* SpecCache: calls of get_or_create_distance_matrix, one after the other *)

InitCache == LineIdle /\ FilesEmpty /\ CacheIdle /\ RunIdle /\ FetchIdle

Call(fl, path) ==
    LET r == get_or_create_distance_matrix(files, fl, path)
    IN  /\ ncalls < MaxCalls
        /\ ncalls' = ncalls + 1
        /\ first_lines' = fl
        /\ matrix_path' = path
        /\ outcome' = r.outcome
        /\ dist_matrix' = r.matrix
        /\ calls' = r.calls
        /\ files' = r.files
        /\ UNCHANGED <<fetchVars, lineVars, runVars>>

NextCache ==
    \E fl \in RecordSeqs(Range(AllRecords), MaxRecords) :
        \E path \in {GlobalPath, ClusterPath(0)} : Call(fl, path)

SpecCache == InitCache /\ [][NextCache]_vars

----------------------------------------------------------------------------
(* folger_results.db and the clusterer *)

\* the code point of a character
Ord(ch) ==
    CASE ch = " " -> 32 [] ch = "," -> 44 [] ch = "B" -> 66 [] ch = "O" -> 79
      [] ch = "a" -> 97 [] ch = "b" -> 98 [] ch = "e" -> 101 [] ch = "f" -> 102
      [] ch = "o" -> 111 [] ch = "s" -> 115

\* a <= b in the order of ORDER BY on a text column
RECURSIVE TextLeq(_, _)
TextLeq(a, b) ==
    IF a = <<>> THEN TRUE
    ELSE IF b = <<>> THEN FALSE
    ELSE IF Ord(Head(a)) # Ord(Head(b)) THEN Ord(Head(a)) < Ord(Head(b))
    ELSE TextLeq(Tail(a), Tail(b))

Enumerations(S) ==
    {f \in [1..Cardinality(S) -> S] : \A i, j \in DOMAIN f : i # j => f[i] # f[j]}

\* SELECT id, [First Line] FROM details ORDER BY [First Line]
SelectByFirstLine(table) ==
    {fl \in Enumerations(table) :
        \A i, j \in DOMAIN fl : i < j => TextLeq(fl[i][2], fl[j][2])}

\* the members of a set of integers, ascending
RECURSIVE Ascending(_)
Ascending(S) ==
    IF S = {} THEN <<>>
    ELSE LET least == CHOOSE x \in S : \A y \in S : x <= y
         IN  <<least>> \o Ascending(S \ {least})

DetailOf(table, id) == CHOOSE r \in table : r[1] = id

\* the join of clusters and details, ORDER BY cluster, id, grouped by cluster:
\* the groups in the order the dict holds them
GroupByCluster(clusterTable, detailTable) ==
    LET joined == {row \in clusterTable : \E r \in detailTable : r[1] = row[2]}
        ids == Ascending({row[1] : row \in joined})
        members(c) == Ascending({row[2] : row \in {x \in joined : x[1] = c}})
    IN  [k \in 1..Len(ids) |->
            [cluster_id |-> ids[k],
             first_lines |-> [q \in 1..Len(members(ids[k])) |->
                                 DetailOf(detailTable, members(ids[k])[q])]]]

\* AffinityPropagation(...).fit_predict on an n by n matrix: the label vectors
\* it may return; none when it raises (no samples)
fit_predict(m) ==
    IF Len(m) = 0 THEN {}
    ELSE [1..Len(m) -> 0..MaxLabel] \cup {[i \in 1..Len(m) |-> -1]}

unique_EveryLabel(lab) == lab

\* np.unique(labels)
unique(lab) == Ascending(Range(lab))

\* [first_lines[i] for i in range(n) if labels[i] == cluster_id]
Members(fl, lab, cluster_id) ==
    LET idx == SelectSeq([i \in 1..Len(fl) |-> i], LAMBDA i : lab[i] = cluster_id)
    IN  [k \in 1..Len(idx) |-> fl[idx[k]]]

RECURSIVE RowsOf(_, _, _, _)
RowsOf(fl, lab, ids, prefix) ==
    IF ids = <<>> THEN <<>>
    ELSE LET lines == Members(fl, lab, Head(ids))
         IN  [k \in 1..Len(lines) |-> prefix \o <<Head(ids)>> \o lines[k]]
             \o RowsOf(fl, lab, Tail(ids), prefix)

\* the rows the loops over np.unique(labels) write
LabelRows(fl, lab, prefix) == RowsOf(fl, lab, unique(lab), prefix)

----------------------------------------------------------------------------
(* SpecRun: the scraper fills the store; cluster_folger and                *)
(* create_subclusters run one after the other, in any order                *)

InitRun == LineIdle /\ FilesEmpty /\ CacheIdle /\ RunIdle /\ FetchIdle

NoRun == pc = "idle"

\* scrape_folger.py: one more row in the details table, the ids ascending
insert_detail(r) ==
    /\ NoRun
    /\ r \notin details
    /\ r[1] = Cardinality(details) + 1
    /\ details' = details \cup {r}
    /\ UNCHANGED <<fetchVars, lineVars, files, cacheVars, clusters, fn, pc, conn, err,
                   labels, grouped, todo, csv>>

\* the clusters table is loaded with one cluster label for each record
ImportClusters(assign) ==
    /\ NoRun
    /\ details # {}
    /\ clusters' = {<<assign[r[1]], r[1]>> : r \in details}
    /\ clusters' # clusters
    /\ UNCHANGED <<fetchVars, lineVars, files, cacheVars, details, fn, pc, conn, err,
                   labels, grouped, todo, csv>>


\* cluster_folger: connect and fetch
CF_Connect ==
    /\ NoRun
    /\ fn' = "cluster_folger"
    /\ conn' = "open"
    /\ \E fl \in SelectByFirstLine(details) : first_lines' = fl
    /\ pc' = "cf_fetched"
    /\ UNCHANGED <<fetchVars, lineVars, files, matrix_path, outcome, dist_matrix, calls,
                   ncalls, details, clusters, err, labels, grouped, todo, csv>>

\* cluster_folger: the distance matrix
CF_Matrix ==
    /\ pc = "cf_fetched"
    /\ LET r == get_or_create_distance_matrix(files, first_lines, GlobalPath)
       IN  /\ files' = r.files
           /\ outcome' = r.outcome
           /\ dist_matrix' = r.matrix
           /\ calls' = r.calls
           /\ pc' = IF r.outcome = "ValueError" THEN "raised" ELSE "cf_matrix"
           /\ err' = IF r.outcome = "ValueError" THEN "ValueError" ELSE err
    /\ UNCHANGED <<fetchVars, lineVars, first_lines, matrix_path, ncalls, details,
                   clusters, fn, conn, labels, grouped, todo, csv>>

\* cluster_folger: the clustering
CF_Cluster ==
    /\ pc = "cf_matrix"
    /\ IF fit_predict(dist_matrix) = {}
       THEN pc' = "raised" /\ err' = "ClusterError" /\ labels' = labels
       ELSE /\ \E lab \in fit_predict(dist_matrix) : labels' = lab
            /\ pc' = "cf_labels"
            /\ err' = err
    /\ UNCHANGED <<fetchVars, lineVars, files, cacheVars, details, clusters, fn, conn,
                   grouped, todo, csv>>

\* cluster_folger: clusters.csv, which may fail to open
CF_Write ==
    /\ pc = "cf_labels"
    /\ \E opened \in BOOLEAN :
          IF opened
          THEN csv' = LabelRows(first_lines, labels, <<>>)
               /\ pc' = "cf_written" /\ err' = err
          ELSE csv' = csv /\ pc' = "raised" /\ err' = "OSError"
    /\ UNCHANGED <<fetchVars, lineVars, files, cacheVars, details, clusters, fn, conn,
                   labels, grouped, todo>>

\* cluster_folger: conn.close()
CF_Close ==
    /\ pc = "cf_written"
    /\ conn' = "closed"
    /\ pc' = "done"
    /\ UNCHANGED <<fetchVars, lineVars, files, cacheVars, details, clusters, fn, err,
                   labels, grouped, todo, csv>>

\* create_subclusters: connect, fetch and group
CS_Connect ==
    /\ NoRun
    /\ clusters # {}
    /\ fn' = "create_subclusters"
    /\ conn' = "open"
    /\ grouped' = GroupByCluster(clusters, details)
    /\ todo' = 1
    /\ pc' = "cs_grouped"
    /\ UNCHANGED <<fetchVars, lineVars, files, cacheVars, details, clusters, err, labels,
                   csv>>

\* create_subclusters: subclusters.csv, which may fail to open
CS_Open ==
    /\ pc = "cs_grouped"
    /\ \E opened \in BOOLEAN :
          IF opened THEN pc' = "cs_loop" /\ err' = err
          ELSE pc' = "raised" /\ err' = "OSError"
    /\ UNCHANGED <<fetchVars, lineVars, files, cacheVars, details, clusters, fn, conn,
                   labels, grouped, todo, csv>>

\* create_subclusters: the loop body for the next cluster
CS_Iterate ==
    /\ pc = "cs_loop"
    /\ todo <= Len(grouped)
    /\ LET g == grouped[todo]
           path == ClusterPath(g.cluster_id)
           r == get_or_create_distance_matrix(files, g.first_lines, path)
       IN  /\ first_lines' = g.first_lines
           /\ matrix_path' = path
           /\ files' = r.files
           /\ outcome' = r.outcome
           /\ dist_matrix' = r.matrix
           /\ calls' = r.calls
           /\ IF r.outcome = "ValueError"
              THEN /\ pc' = "raised" /\ err' = "ValueError"
                   /\ UNCHANGED <<labels, todo, csv>>
              ELSE IF fit_predict(r.matrix) = {}
              THEN /\ pc' = "raised" /\ err' = "ClusterError"
                   /\ UNCHANGED <<labels, todo, csv>>
              ELSE /\ \E lab \in fit_predict(r.matrix) :
                        /\ labels' = lab
                        /\ csv' = csv \o LabelRows(g.first_lines, lab, <<g.cluster_id>>)
                   /\ todo' = todo + 1
                   /\ pc' = pc /\ err' = err
    /\ UNCHANGED <<fetchVars, lineVars, ncalls, details, clusters, fn, conn, grouped>>

\* create_subclusters: the loop is over, the file is closed, the function returns
CS_Return ==
    /\ pc = "cs_loop"
    /\ todo > Len(grouped)
    /\ pc' = "done"
    /\ UNCHANGED <<fetchVars, lineVars, files, cacheVars, details, clusters, fn, conn, err,
                   labels, grouped, todo, csv>>

\* the run is over, by return or by exception: its locals are gone
Exit ==
    /\ pc \in {"done", "raised"}
    /\ fn' = "none"
    /\ pc' = "idle"
    /\ conn' = "none"
    /\ err' = "none"
    /\ labels' = <<>>
    /\ grouped' = <<>>
    /\ todo' = 0
    /\ csv' = <<>>
    /\ first_lines' = <<>>
    /\ matrix_path' = GlobalPath
    /\ outcome' = "none"
    /\ dist_matrix' = <<>>
    /\ calls' = <<>>
    /\ UNCHANGED <<fetchVars, lineVars, files, ncalls, details, clusters>>

NextRun ==
    \/ \E r \in Pool(MaxDetails) : insert_detail(r)
    \/ \E assign \in [1..MaxDetails -> 0..MaxLabel] : ImportClusters(assign)
    \/ CF_Connect
    \/ CF_Matrix
    \/ CF_Cluster
    \/ CF_Write
    \/ CF_Close
    \/ CS_Connect
    \/ CS_Open
    \/ CS_Iterate
    \/ CS_Return
    \/ Exit

SpecRun == InitRun /\ [][NextRun]_vars

----------------------------------------------------------------------------
(* Claims about line_similarity, checked under SpecLine *)

Line1 == process_first_line(t1[2])

Line2 == process_first_line(t2[2])

\* no word of at least four characters occurs in both normalized lines
NoSharedLongWord == \A w \in Range(Line1) \cap Range(Line2) : Len(w) < 4

LongerJoined == Max(Len(join(Line1)), Len(join(Line2)))

C5_Symmetry == ret # <<>> => ret[1] = line_similarity(t2, t1)

\* the edit-distance branch on two different lines
C5_Witness ==
    /\ ret # <<>>
    /\ ~NoSharedLongWord
    /\ join(Line1) # join(Line2)
    /\ Len(join(Line1)) # Len(join(Line2))
    /\ ret[1] < 0

\* C6: line_similarity(a, a) is 0 for every record a; the distance of two
\* records with empty normalized text is 0; the distance of an empty and a
\* non-empty normalized line is the length of the non-empty joined line.
C6_IdentityAndBlank ==
    ret # <<>> =>
        /\ t1 = t2 => ret[1] = 0
        /\ (Line1 = <<>> /\ Line2 = <<>>) => -ret[1] = 0
        /\ (Line1 = <<>> /\ Line2 # <<>>) => -ret[1] = Len(join(Line2))
        /\ (Line1 # <<>> /\ Line2 = <<>>) => -ret[1] = Len(join(Line1))

----------------------------------------------------------------------------
(* Claims about get_or_create_distance_matrix, checked under SpecCache *)

Returned == outcome \in {"built", "loaded"}

N == Len(first_lines)

\* C1: every matrix a call returns holds, at (i, j), the distance of records
\* i and j of the record sequence passed to that very call.
C1_MatrixOfTheseRecords ==
    Returned =>
        /\ Len(dist_matrix) = N
        /\ \A i \in 1..N : \A j \in 1..N :
               i # j => dist_matrix[i][j] = line_similarity(first_lines[i], first_lines[j])

\* C2: a call that finds a stored matrix whose dimensions differ from (n, n)
\* ends in the shape-mismatch error, returns no matrix, evaluates no distance
\* and leaves the stored file as it was.
C2_ShapeMismatchFails ==
    [][(files[matrix_path'].exists
            /\ files[matrix_path'].shape # <<Len(first_lines'), Len(first_lines')>>)
        => (/\ outcome' = "ValueError"
            /\ dist_matrix' = <<>>
            /\ calls' = <<>>
            /\ files' = files)]_vars

C2_Witness ==
    /\ outcome = "ValueError"
    /\ files[matrix_path].exists
    /\ files[matrix_path].shape[1] > N
    /\ N > 0

\* C3: a call that finds no file under the key computes the matrix and stores
\* it under the key; the next call, with the same records and the same key,
\* returns the same matrix and evaluates no distance.
C3_RoundTrip ==
    [][/\ ~files[matrix_path'].exists =>
            /\ outcome' = "built"
            /\ files'[matrix_path'].exists
            /\ files'[matrix_path'].shape = <<Len(first_lines'), Len(first_lines')>>
            /\ files'[matrix_path'].data = Flatten(dist_matrix')
       /\ (outcome = "built" /\ first_lines' = first_lines /\ matrix_path' = matrix_path) =>
            /\ outcome' = "loaded"
            /\ dist_matrix' = dist_matrix
            /\ calls' = <<>>]_vars

\* a matrix with a non-zero cell came back from the file
C3_Witness ==
    /\ outcome = "loaded"
    /\ calls = <<>>
    /\ N >= 2
    /\ dist_matrix[1][2] # 0
    /\ dist_matrix[1][2] = line_similarity(first_lines[1], first_lines[2])

UnorderedPairs(n) == {<<i, j>> \in (1..n) \X (1..n) : i < j}

\* C7: a matrix the call builds is n by n, symmetric and zero on the diagonal,
\* and the build evaluates the distance exactly once for each pair i < j.
C7_BuiltMatrix ==
    outcome = "built" =>
        /\ Len(dist_matrix) = N
        /\ \A i \in 1..N : Len(dist_matrix[i]) = N
        /\ \A i \in 1..N : dist_matrix[i][i] = 0
        /\ \A i \in 1..N : \A j \in 1..N : dist_matrix[i][j] = dist_matrix[j][i]
        /\ Range(calls) = UnorderedPairs(N)
        /\ Len(calls) = Cardinality(UnorderedPairs(N))

C7_Witness ==
    /\ outcome = "built"
    /\ N >= 2
    /\ dist_matrix[1][2] # 0
    /\ dist_matrix[2][1] = dist_matrix[1][2]
    /\ calls # <<>>

----------------------------------------------------------------------------
(* Claims about the runs, checked under SpecRun *)

RunEnded == pc \in {"done", "raised"}

\* the rows of a subclusters.csv that carry a record under a parent cluster
SubRows(cluster_id, r) ==
    {k \in DOMAIN csv : csv[k][1] = cluster_id /\ csv[k][3] = r[1] /\ csv[k][4] = r[2]}

GroupWritten(g) ==
    \A i \in DOMAIN grouped[g].first_lines :
        SubRows(grouped[g].cluster_id, grouped[g].first_lines[i]) # {}

\* C8: when the matrix cache or the clustering fails for one cluster of
\* create_subclusters, the run still processes every other cluster and writes
\* its rows.
C8_SiblingsStillProcessed ==
    (fn = "create_subclusters" /\ RunEnded /\ err \in {"ValueError", "ClusterError"})
        => \A g \in DOMAIN grouped : g # todo => GroupWritten(g)

RECURSIVE SizeUpTo(_)
SizeUpTo(g) == IF g = 0 THEN 0 ELSE Len(grouped[g].first_lines) + SizeUpTo(g - 1)

\* C9: once cluster_folger has written its rows, every record it fetched is
\* in exactly one row, under the label the clusterer gave it; once
\* create_subclusters has written a parent cluster's rows, every record of
\* that cluster is in exactly one row of that parent; no other row is written.
C9_PartitionComplete ==
    /\ (fn = "cluster_folger" /\ pc \in {"cf_written", "done"}) =>
          /\ Len(csv) = Len(first_lines)
          /\ \A r \in Range(first_lines) :
                Cardinality({k \in DOMAIN csv : csv[k][2] = r[1] /\ csv[k][3] = r[2]}) = 1
          /\ \A k \in DOMAIN csv : \E i \in DOMAIN first_lines :
                first_lines[i] = <<csv[k][2], csv[k][3]>> /\ labels[i] = csv[k][1]
    /\ (fn = "create_subclusters" /\ pc \in {"cs_loop", "done", "raised"}) =>
          /\ Len(csv) = SizeUpTo(todo - 1)
          /\ \A g \in DOMAIN grouped : \A i \in DOMAIN grouped[g].first_lines :
                Cardinality(SubRows(grouped[g].cluster_id, grouped[g].first_lines[i]))
                    = IF g < todo THEN 1 ELSE 0

\* a parent cluster of two records was split into two subclusters, the
\* second record's first
C9_Witness ==
    /\ fn = "create_subclusters"
    /\ pc = "done"
    /\ Len(grouped) = 1
    /\ Len(csv) = 2
    /\ labels = <<1, 0>>
    /\ csv[1][3] = grouped[1].first_lines[2][1]

\* C10: no run ends with the connection it opened still open.
C10_ConnectionReleased == RunEnded => conn = "closed"

----------------------------------------------------------------------------
(* SpecFetch: scrape_folger.py, fetch_with_retries, one loop iteration a step *)

\* what requests.get or raise_for_status may raise
RequestErrors == {"RequestException", "HTTPError"}

Wait_Linear(base, n) == base * (n + 1)

\* wait = base_delay * (2**attempt)
Wait(base, n) == base * 2^n

InitFetch ==
    /\ max_retries \in 0..MaxRetries
    /\ base_delay \in 1..MaxBaseDelay
    /\ attempt = 0
    /\ fpc = "loop"
    /\ response = "none"
    /\ requests = 0
    /\ slept = <<>>
    /\ warnings = <<>>
    /\ LineIdle /\ FilesEmpty /\ CacheIdle /\ RunIdle

\* an iteration whose request succeeds: return response
RequestSucceeds ==
    /\ fpc = "loop"
    /\ attempt < max_retries
    /\ requests' = requests + 1
    /\ response' = "response"
    /\ fpc' = "returned"
    /\ UNCHANGED <<max_retries, base_delay, attempt, slept, warnings,
                   lineVars, files, cacheVars, runVars>>

\* an iteration whose request raises: warn, sleep, next attempt
RequestFails(e) ==
    /\ fpc = "loop"
    /\ attempt < max_retries
    /\ requests' = requests + 1
    /\ LET wait == Wait(base_delay, attempt)
       IN  /\ warnings' = Append(warnings, <<attempt + 1, max_retries, e, wait>>)
           /\ slept' = Append(slept, wait)
    /\ attempt' = attempt + 1
    /\ UNCHANGED <<max_retries, base_delay, fpc, response,
                   lineVars, files, cacheVars, runVars>>

\* the loop is exhausted: raise RuntimeError
GiveUp ==
    /\ fpc = "loop"
    /\ attempt >= max_retries
    /\ fpc' = "RuntimeError"
    /\ UNCHANGED <<max_retries, base_delay, attempt, response, requests, slept,
                   warnings, lineVars, files, cacheVars, runVars>>

NextFetch ==
    \/ RequestSucceeds
    \/ \E e \in RequestErrors : RequestFails(e)
    \/ GiveUp

\* the interpreter keeps running the loop: a request ends (it has a timeout),
\* a sleep ends
SpecFetch == InitFetch /\ [][NextFetch]_vars /\ WF_vars(NextFetch)

----------------------------------------------------------------------------
(* Claim about fetch_with_retries, checked under SpecFetch *)

FetchEnded == fpc \in {"returned", "RuntimeError"}

FailedRequests == requests - (IF fpc = "returned" THEN 1 ELSE 0)

FetchSafe ==
    /\ requests <= max_retries
    /\ Len(slept) = FailedRequests
    /\ \A k \in DOMAIN slept :
          /\ slept[k] = base_delay * 2^(k - 1)
          /\ k > 1 => slept[k] = 2 * slept[k - 1]
    /\ fpc = "returned" => response = "response"
    /\ fpc # "returned" => response = "none"
    /\ FetchEnded => (fpc = "RuntimeError" <=> FailedRequests = max_retries)

\* C11: fetch_with_retries ends; it issues at most max_retries requests; it
\* returns the response of the first request that succeeds and then issues no
\* request and sleeps no more; after failed attempt number k (from 0) it
\* sleeps base_delay * 2^k, twice the sleep before; it raises RuntimeError
\* exactly when all max_retries requests failed.
C11_FetchWithRetries ==
    /\ []FetchSafe
    /\ [][FetchEnded => UNCHANGED <<requests, slept, response, fpc>>]_vars
    /\ <>FetchEnded

\* the third request succeeded, after sleeps of base_delay and 2 * base_delay
C11_Witness ==
    /\ fpc = "returned"
    /\ requests = 3
    /\ base_delay = 2
    /\ slept = <<2, 4>>
    /\ max_retries > 3

====
